---- MODULE Spec2Model ----
(***************************************************************************)
(* Model of src/copy-object-multipart.js: the multipart copy of one S3     *)
(* object.  copyObjectMultipart initiates an upload, plans byte ranges,    *)
(* dispatches one copy-part call per range, joins them with Promise.all    *)
(* and then either completes the upload or aborts it and lists the parts.  *)
(***************************************************************************)
EXTENDS Integers, Sequences, FiniteSets, TLC

\* ------------------------------------------------------------------------
\* Program constants
\* ------------------------------------------------------------------------
COPY_PART_SIZE_MINIMUM_BYTES == 5242880

DEFAULT_COPY_PART_SIZE_BYTES == 50000000

\* ------------------------------------------------------------------------
\* Bounds of the model
\* ------------------------------------------------------------------------
\* largest number of whole slices (object_size div part size) in the inputs
MaxSlices == 2

\* largest number of planned parts followed through the protocol
MaxParts == 3

\* largest number of parts a list-parts response reports
MaxListed == 2

\* ------------------------------------------------------------------------
\* JavaScript arithmetic on the integers used here
\* ------------------------------------------------------------------------
\* Math.floor(a / b) for b > 0
MathFloorDiv(a, b) == a \div b

\* a % b of JavaScript for b > 0: the result takes the sign of the dividend
JsRemainder(a, b) == IF a >= 0 THEN a % b ELSE 0 - ((0 - a) % b)

\* ------------------------------------------------------------------------
\* calculatePartitionsRangeArray
\* ------------------------------------------------------------------------
\* the string start + '-' + end, kept as its two integers
Partition(start, end) == [start |-> start, end |-> end]

\* copy_part_size_bytes || DEFAULT_COPY_PART_SIZE_BYTES; an absent option and
\* 0 are both falsy, the input 0 stands for both
CopyPartSize(copy_part_size_bytes) ==
  IF copy_part_size_bytes = 0 THEN DEFAULT_COPY_PART_SIZE_BYTES
  ELSE copy_part_size_bytes

\* mutation of IsLastWidened: the last slice always absorbs the remainder
IsLastWidenedAlways(nextIndex, numOfPartitions, remainder) ==
  nextIndex = numOfPartitions

\* the condition under which the last whole slice absorbs the remainder
IsLastWidened(nextIndex, numOfPartitions, remainder) ==
  nextIndex = numOfPartitions /\ remainder < COPY_PART_SIZE_MINIMUM_BYTES

\* mutation of HasTrailingPartition: every non-zero remainder is a part
HasTrailingPartitionAnyRemainder(remainder) ==
  remainder > 0

\* the condition under which the remainder becomes a part of its own
HasTrailingPartition(remainder) ==
  remainder >= COPY_PART_SIZE_MINIMUM_BYTES

\* mutation of LoopPartition: the slice ends one byte late
LoopPartitionOffByOne(index, numOfPartitions, copy_part_size, remainder) ==
  LET nextIndex == index + 1
  IN IF IsLastWidened(nextIndex, numOfPartitions, remainder)
     THEN Partition(index * copy_part_size,
                    nextIndex * copy_part_size + remainder - 1)
     ELSE Partition(index * copy_part_size, nextIndex * copy_part_size)

\* the partition pushed by one iteration of the for loop
LoopPartition(index, numOfPartitions, copy_part_size, remainder) ==
  LET nextIndex == index + 1
  IN IF IsLastWidened(nextIndex, numOfPartitions, remainder)
     THEN Partition(index * copy_part_size,
                    nextIndex * copy_part_size + remainder - 1)
     ELSE Partition(index * copy_part_size, nextIndex * copy_part_size - 1)

\* the for loop: one partition pushed per index 0 .. numOfPartitions - 1, in
\* index order (none when numOfPartitions <= 0)
PartitionsLoop(numOfPartitions, copy_part_size, remainder) ==
  [i \in 1..numOfPartitions |->
     LoopPartition(i - 1, numOfPartitions, copy_part_size, remainder)]

\* the value of index when the for loop ends
IndexAfterLoop(numOfPartitions) ==
  IF numOfPartitions > 0 THEN numOfPartitions ELSE 0

calculatePartitionsRangeArray(object_size, copy_part_size_bytes) ==
  LET copy_part_size == CopyPartSize(copy_part_size_bytes)
      numOfPartitions == MathFloorDiv(object_size, copy_part_size)
      remainder == JsRemainder(object_size, copy_part_size)
      index == IndexAfterLoop(numOfPartitions)
      looped == PartitionsLoop(numOfPartitions, copy_part_size, remainder)
  IN IF HasTrailingPartition(remainder)
     THEN Append(looped, Partition(index * copy_part_size,
                                   index * copy_part_size + remainder - 1))
     ELSE looped

\* ------------------------------------------------------------------------
\* Inputs
\* ------------------------------------------------------------------------
\* values of the option copy_part_size_bytes (0: not given)
CopyPartSizeInputs ==
  {0, 1000000, COPY_PART_SIZE_MINIMUM_BYTES - 1, COPY_PART_SIZE_MINIMUM_BYTES,
   COPY_PART_SIZE_MINIMUM_BYTES + 1, 12000000, DEFAULT_COPY_PART_SIZE_BYTES}

\* remainders around the minimum part size
RemainderInputs ==
  {0, 1, 4, 3000000, COPY_PART_SIZE_MINIMUM_BYTES - 1,
   COPY_PART_SIZE_MINIMUM_BYTES, COPY_PART_SIZE_MINIMUM_BYTES + 1, 20000000}

\* object sizes: whole slices of some part size plus a remainder, and
\* values that are not sizes at all
ObjectSizeInputs ==
  {q * CopyPartSize(p) + r : q \in 0..MaxSlices, p \in CopyPartSizeInputs,
                             r \in RemainderInputs}
  \cup {0 - 5, 0 - 60000000}

\* the options object_size and copy_part_size_bytes of one call
PlannerInputs ==
  [object_size : ObjectSizeInputs, copy_part_size_bytes : CopyPartSizeInputs]

\* the calls followed through the protocol: those planning few enough parts
ProtocolSizeInputs ==
  {q * DEFAULT_COPY_PART_SIZE_BYTES + r : q \in 0..MaxSlices,
                                          r \in {0, 4, 3000000, 20000000}}
  \cup {0 - 5, 5000000, 6000000}

ProtocolInputs ==
  {i \in [object_size : ProtocolSizeInputs,
          copy_part_size_bytes : {0, 1000000, 6000000, DEFAULT_COPY_PART_SIZE_BYTES}] :
     Len(calculatePartitionsRangeArray(i.object_size, i.copy_part_size_bytes))
       <= MaxParts}

\* ------------------------------------------------------------------------
\* Values exchanged with the storage service
\* ------------------------------------------------------------------------
\* upload ids the service may issue
UploadIds == {"upload-1", "upload-2"}

\* integrity tags the service may return for a copied part
ETags == {"etag-a", "etag-b"}

\* the error a failed client.send rejects with; part is 0 for calls that are
\* not copy-part calls
ServiceError(op, part) == [name |-> "ServiceError", op |-> op, part |-> part]

\* the response of a successful UploadPartCopyCommand
CopyPartResponse(etag) == [CopyPartResult |-> [ETag |-> etag]]

\* the responses of a successful CompleteMultipartUploadCommand
CompleteResponses == {[Location |-> "location", ETag |-> e] : e \in ETags}

\* the responses of a successful ListPartsCommand: the first j parts remain
ListPartsResponses ==
  {[Parts |-> [n \in 1..j |-> [PartNumber |-> n]]] : j \in 0..MaxListed}

\* params of abortMultipartCopy, sent with both of its commands
AbortParams(uid) == [Bucket |-> "destination", Key |-> "copied", UploadId |-> uid]

\* ------------------------------------------------------------------------
\* State
\* ------------------------------------------------------------------------
VARIABLES
  request,               \* the options object_size and copy_part_size_bytes
  pc,                    \* where the promise chain of the call stands
  upload_id,             \* the id returned by the initiate call
  partitionsRangeArray,  \* the planned ranges
  copyParts,             \* per part number, the state of its copy-part call
  settleOrder,           \* part numbers in the order their calls settled
  rejection,             \* the reason the catch handler is called with
  calls,                 \* the commands sent to the client, in order
  parts_list,            \* the response of the list-parts call
  sendResults,           \* per command other than copy-part, how its send settled
  outcome                \* the promise returned to the caller

vars == <<request, pc, upload_id, partitionsRangeArray, copyParts, settleOrder,
          rejection, calls, parts_list, sendResults, outcome>>

NoListing == [name |-> "none"]

NoUpload == "none"

NoRejection == [name |-> "none"]

Pending == [status |-> "pending"]

Resolved(value) == [status |-> "resolved", value |-> value]

Rejected(reason) == [status |-> "rejected", reason |-> reason]

InFlight == [state |-> "inflight", ETag |-> "none"]

\* sendResults once the send of the command op has settled with result
Settled(op, result) == (op :> result) @@ sendResults

\* the state before copyObjectMultipart is called with one of the inputs
InitWith(inputs) ==
  /\ request \in inputs
  /\ pc = "Idle"
  /\ upload_id = NoUpload
  /\ partitionsRangeArray = <<>>
  /\ copyParts = <<>>
  /\ settleOrder = <<>>
  /\ rejection = NoRejection
  /\ calls = <<>>
  /\ parts_list = NoListing
  /\ sendResults = <<>>
  /\ outcome = Pending

Init == InitWith(ProtocolInputs)

\* ------------------------------------------------------------------------
\* copyObjectMultipart
\* ------------------------------------------------------------------------
\* the call: initiateMultipartCopy sends CreateMultipartUploadCommand
Invoke ==
  /\ pc = "Idle"
  /\ pc' = "Initiating"
  /\ calls' = Append(calls, [op |-> "initiate"])
  /\ UNCHANGED <<request, upload_id, partitionsRangeArray, copyParts,
                 settleOrder, rejection, outcome,
                 parts_list, sendResults>>

\* the command copyPart sends for the index-th range
copyPart(part_number, partition_range, uid) ==
  [op |-> "copyPart", PartNumber |-> part_number,
   CopySourceRange |-> partition_range, UploadId |-> uid]

\* mutation of InitiateFails: the failure is handled by the catch handler
InitiateFailsAborts ==
  /\ pc = "Initiating"
  /\ pc' = "ChainRejected"
  /\ rejection' = ServiceError("initiate", 0)
  /\ sendResults' = Settled("initiate", Rejected(ServiceError("initiate", 0)))
  /\ UNCHANGED <<request, upload_id, partitionsRangeArray, copyParts,
                 settleOrder, calls, parts_list, outcome>>

\* the initiate call fails: the await throws, the call rejects with its error
InitiateFails ==
  /\ pc = "Initiating"
  /\ pc' = "Returned"
  /\ outcome' = Rejected(ServiceError("initiate", 0))
  /\ sendResults' = Settled("initiate", Rejected(ServiceError("initiate", 0)))
  /\ UNCHANGED <<request, upload_id, partitionsRangeArray, copyParts,
                 settleOrder, rejection, calls,
                 parts_list>>

\* mutation of InitiateSucceeds: only the first copy-part call is sent
InitiateSucceedsDispatchesFirst ==
  /\ pc = "Initiating"
  /\ \E uid \in UploadIds :
       LET ranges == calculatePartitionsRangeArray(request.object_size,
                                                   request.copy_part_size_bytes)
           first == IF Len(ranges) = 0 THEN 0 ELSE 1
       IN /\ upload_id' = uid
          /\ sendResults' = Settled("initiate", Resolved([UploadId |-> uid]))
          /\ partitionsRangeArray' = ranges
          /\ copyParts' = [k \in 1..first |-> InFlight]
          /\ calls' = calls \o [k \in 1..first |-> copyPart(k, ranges[k], uid)]
          /\ pc' = IF Len(ranges) = 0 THEN "AllFulfilled" ELSE "CopyingParts"
  /\ UNCHANGED <<request, settleOrder, rejection, outcome, parts_list>>

\* the initiate call succeeds: the ranges are planned and one copy-part call
\* per range is sent, in range order; Promise.all of no promises is fulfilled
InitiateSucceeds ==
  /\ pc = "Initiating"
  /\ \E uid \in UploadIds :
       LET ranges == calculatePartitionsRangeArray(request.object_size,
                                                   request.copy_part_size_bytes)
       IN /\ upload_id' = uid
          /\ sendResults' = Settled("initiate", Resolved([UploadId |-> uid]))
          /\ partitionsRangeArray' = ranges
          /\ copyParts' = [k \in 1..Len(ranges) |-> InFlight]
          /\ calls' = calls \o [k \in 1..Len(ranges) |-> copyPart(k, ranges[k], uid)]
          /\ pc' = IF Len(ranges) = 0 THEN "AllFulfilled" ELSE "CopyingParts"
  /\ UNCHANGED <<request, settleOrder, rejection, outcome,
                 parts_list>>

\* mutation of AllSucceeded: one success is enough
AllSucceededAny(parts) == \E k \in DOMAIN parts : parts[k].state = "ok"

\* all copy-part calls have succeeded
AllSucceeded(parts) == \A k \in DOMAIN parts : parts[k].state = "ok"

\* a copy-part call succeeds; Promise.all is fulfilled by the last success
PartSucceeds ==
  \E k \in DOMAIN copyParts, etag \in ETags :
    /\ copyParts[k].state = "inflight"
    /\ copyParts' = [copyParts EXCEPT ![k] = [state |-> "ok", ETag |-> etag]]
    /\ settleOrder' = Append(settleOrder, k)
    /\ pc' = IF pc = "CopyingParts" /\ AllSucceeded(copyParts')
             THEN "AllFulfilled" ELSE pc
    /\ UNCHANGED <<request, upload_id, partitionsRangeArray, rejection, calls,
                   outcome,
                 parts_list, sendResults>>

\* mutation of PartFails: the failure does not reject the join
PartFailsUnnoticed ==
  \E k \in DOMAIN copyParts :
    /\ copyParts[k].state = "inflight"
    /\ copyParts' = [copyParts EXCEPT ![k] = [state |-> "failed", ETag |-> "none"]]
    /\ settleOrder' = Append(settleOrder, k)
    /\ UNCHANGED <<request, pc, rejection, upload_id, partitionsRangeArray,
                   calls, outcome, parts_list, sendResults>>

\* a copy-part call fails; Promise.all is rejected by the first failure with
\* that failure's error, later ones are ignored
PartFails ==
  \E k \in DOMAIN copyParts :
    /\ copyParts[k].state = "inflight"
    /\ copyParts' = [copyParts EXCEPT ![k] = [state |-> "failed", ETag |-> "none"]]
    /\ settleOrder' = Append(settleOrder, k)
    /\ IF pc = "CopyingParts"
       THEN pc' = "ChainRejected" /\ rejection' = ServiceError("copyPart", k)
       ELSE UNCHANGED <<pc, rejection>>
    /\ UNCHANGED <<request, upload_id, partitionsRangeArray, calls, outcome,
                 parts_list, sendResults>>

\* the results Promise.all resolves with: the responses in dispatch order
CopyResults(parts) == [k \in DOMAIN parts |-> CopyPartResponse(parts[k].ETag)]

\* mutation of prepareResultsForCopyCompletion: the tags are taken in the
\* order the copies settled
prepareResultsTagsInSettleOrder(copy_parts_results_array) ==
  [index \in 1..Len(copy_parts_results_array) |->
     [ETag |-> copy_parts_results_array[settleOrder[index]].CopyPartResult.ETag,
      PartNumber |-> index]]

\* mutation of prepareResultsForCopyCompletion: entries in the order the
\* copies settled
prepareResultsInSettleOrder(copy_parts_results_array) ==
  [i \in 1..Len(settleOrder) |->
     [ETag |-> copy_parts_results_array[settleOrder[i]].CopyPartResult.ETag,
      PartNumber |-> settleOrder[i]]]

prepareResultsForCopyCompletion(copy_parts_results_array) ==
  [index \in 1..Len(copy_parts_results_array) |->
     [ETag |-> copy_parts_results_array[index].CopyPartResult.ETag,
      PartNumber |-> index]]

\* the command completeMultipartCopy sends
completeMultipartCopy(ETags_array, uid) ==
  [op |-> "complete", MultipartUpload |-> [Parts |-> ETags_array], UploadId |-> uid]

\* the then handler of Promise.all: build the manifest, send complete
ThenHandler ==
  /\ pc = "AllFulfilled"
  /\ pc' = "Finalizing"
  /\ calls' = Append(calls,
       completeMultipartCopy(prepareResultsForCopyCompletion(CopyResults(copyParts)),
                             upload_id))
  /\ UNCHANGED <<request, upload_id, partitionsRangeArray, copyParts,
                 settleOrder, rejection, outcome,
                 parts_list, sendResults>>

\* mutation of CompleteSucceeds: the call resolves with the manifest it sent
CompleteSucceedsReturnsManifest ==
  /\ pc = "Finalizing"
  /\ \E response \in CompleteResponses :
       /\ sendResults' = Settled("complete", Resolved(response))
       /\ outcome' = Resolved(prepareResultsForCopyCompletion(CopyResults(copyParts)))
  /\ pc' = "Returned"
  /\ UNCHANGED <<request, upload_id, partitionsRangeArray, copyParts,
                 settleOrder, rejection, calls, parts_list>>

\* the complete call succeeds: the call resolves with its response
CompleteSucceeds ==
  /\ pc = "Finalizing"
  /\ \E response \in CompleteResponses :
       /\ sendResults' = Settled("complete", Resolved(response))
       /\ outcome' = Resolved(response)
  /\ pc' = "Returned"
  /\ UNCHANGED <<request, upload_id, partitionsRangeArray, copyParts,
                 settleOrder, rejection, calls,
                 parts_list>>

\* the complete call fails: the promise of the then handler is rejected, which
\* the catch after it handles
CompleteFails ==
  /\ pc = "Finalizing"
  /\ pc' = "ChainRejected"
  /\ rejection' = ServiceError("complete", 0)
  /\ sendResults' = Settled("complete", Rejected(ServiceError("complete", 0)))
  /\ UNCHANGED <<request, upload_id, partitionsRangeArray, copyParts,
                 settleOrder, calls, outcome,
                 parts_list>>

\* the command abortMultipartCopy sends first
abortMultipartCopy(uid) == [op |-> "abort", params |-> AbortParams(uid)]

\* mutation of CatchHandler: the rejection is passed on without an abort
CatchHandlerRethrows ==
  /\ pc = "ChainRejected"
  /\ pc' = "Returned"
  /\ outcome' = Rejected(rejection)
  /\ UNCHANGED <<request, upload_id, partitionsRangeArray, copyParts,
                 settleOrder, rejection, calls,
                 parts_list, sendResults>>

\* the catch handler: drops the reason and sends abort
CatchHandler ==
  /\ pc = "ChainRejected"
  /\ pc' = "Aborting"
  /\ calls' = Append(calls, abortMultipartCopy(upload_id))
  /\ UNCHANGED <<request, upload_id, partitionsRangeArray, copyParts,
                 settleOrder, rejection, outcome,
                 parts_list, sendResults>>

\* mutation of AbortFails: the failure is swallowed and list-parts is sent
AbortFailsThenLists ==
  /\ pc = "Aborting"
  /\ pc' = "Listing"
  /\ sendResults' = Settled("abort", Rejected(ServiceError("abort", 0)))
  /\ calls' = Append(calls, [op |-> "listParts", params |-> AbortParams(upload_id)])
  /\ UNCHANGED <<request, upload_id, partitionsRangeArray, copyParts,
                 settleOrder, rejection, outcome, parts_list>>

\* the abort call fails: its error skips the first then, is re-rejected by
\* the catch and skips the second then
AbortFails ==
  /\ pc = "Aborting"
  /\ pc' = "Returned"
  /\ outcome' = Rejected(ServiceError("abort", 0))
  /\ sendResults' = Settled("abort", Rejected(ServiceError("abort", 0)))
  /\ UNCHANGED <<request, upload_id, partitionsRangeArray, copyParts,
                 settleOrder, rejection, calls,
                 parts_list>>

\* the abort call succeeds: list-parts is sent with the same params
AbortSucceeds ==
  /\ pc = "Aborting"
  /\ pc' = "Listing"
  /\ calls' = Append(calls, [op |-> "listParts", params |-> AbortParams(upload_id)])
  /\ sendResults' = Settled("abort", Resolved([ok |-> TRUE]))
  /\ UNCHANGED <<request, upload_id, partitionsRangeArray, copyParts,
                 settleOrder, rejection, outcome,
                 parts_list>>

\* mutation of ListPartsFails: a failed list-parts call is sent once more
ListPartsFailsRetries ==
  /\ pc = "Listing"
  /\ sendResults' = Settled("listParts", Rejected(ServiceError("listParts", 0)))
  /\ IF "listParts" \in DOMAIN sendResults
     THEN /\ pc' = "Returned"
          /\ outcome' = Rejected(ServiceError("listParts", 0))
          /\ UNCHANGED calls
     ELSE /\ calls' = Append(calls, [op |-> "listParts",
                                     params |-> AbortParams(upload_id)])
          /\ UNCHANGED <<pc, outcome>>
  /\ UNCHANGED <<request, upload_id, partitionsRangeArray, copyParts,
                 settleOrder, rejection, parts_list>>

\* the list-parts call fails: its error is re-rejected by the catch
ListPartsFails ==
  /\ pc = "Listing"
  /\ pc' = "Returned"
  /\ outcome' = Rejected(ServiceError("listParts", 0))
  /\ sendResults' = Settled("listParts", Rejected(ServiceError("listParts", 0)))
  /\ UNCHANGED <<request, upload_id, partitionsRangeArray, copyParts,
                 settleOrder, rejection, calls,
                 parts_list>>

\* the error of a listing that still holds parts
PartsNotRemovedError(listing) ==
  [name |-> "Error",
   message |-> "Abort procedure passed but copy parts were not removed",
   details |-> listing]

\* the error of a listing without parts
AbortedError(params) ==
  [name |-> "Error", message |-> "multipart copy aborted", details |-> params]

\* mutation of AbortOutcome: a clean abort resolves with the listing
AbortOutcomeResolvesWhenClean(listing, params) ==
  IF Len(listing.Parts) > 0
  THEN Rejected(PartsNotRemovedError(listing))
  ELSE Resolved(listing)

\* the last then of abortMultipartCopy: both branches reject
AbortOutcome(listing, params) ==
  IF Len(listing.Parts) > 0
  THEN Rejected(PartsNotRemovedError(listing))
  ELSE Rejected(AbortedError(params))

\* the list-parts call succeeds
ListPartsSucceeds ==
  /\ pc = "Listing"
  /\ pc' = "Returned"
  /\ \E response \in ListPartsResponses :
       /\ parts_list' = response
       /\ sendResults' = Settled("listParts", Resolved(response))
       /\ outcome' = AbortOutcome(response, AbortParams(upload_id))
  /\ UNCHANGED <<request, upload_id, partitionsRangeArray, copyParts,
                 settleOrder, rejection, calls>>

Next ==
  \/ Invoke
  \/ InitiateFails
  \/ InitiateSucceeds
  \/ PartSucceeds
  \/ PartFails
  \/ ThenHandler
  \/ CompleteSucceeds
  \/ CompleteFails
  \/ CatchHandler
  \/ AbortFails
  \/ AbortSucceeds
  \/ ListPartsFails
  \/ ListPartsSucceeds

Spec == Init /\ [][Next]_vars

\* every command sent is answered, with success or with an error, and a
\* handler whose promise has settled is run by the event loop
Fairness ==
  /\ WF_vars(Invoke)
  /\ WF_vars(InitiateSucceeds \/ InitiateFails)
  /\ WF_vars(PartSucceeds \/ PartFails)
  /\ WF_vars(ThenHandler)
  /\ WF_vars(CompleteSucceeds \/ CompleteFails)
  /\ WF_vars(CatchHandler)
  /\ WF_vars(AbortSucceeds \/ AbortFails)
  /\ WF_vars(ListPartsSucceeds \/ ListPartsFails)

FairSpec == Spec /\ Fairness

\* ------------------------------------------------------------------------
\* The planner on its own, over a wider set of inputs
\* ------------------------------------------------------------------------
PlannerInit == InitWith(PlannerInputs)

\* calculatePartitionsRangeArray applied to the request
Plan ==
  /\ pc = "Idle"
  /\ pc' = "Planned"
  /\ partitionsRangeArray' = calculatePartitionsRangeArray(request.object_size,
                                                          request.copy_part_size_bytes)
  /\ UNCHANGED <<request, upload_id, copyParts, settleOrder, rejection, calls,
                 outcome,
                 parts_list, sendResults>>

PlannerNext == Plan

PlannerSpec == PlannerInit /\ [][PlannerNext]_vars

\* ------------------------------------------------------------------------
\* Vocabulary of the properties
\* ------------------------------------------------------------------------
\* the commands of one kind sent so far
CallsOf(op) == {i \in DOMAIN calls : calls[i].op = op}

\* abort-multipart has been sent for the upload id of the run
AbortIssued ==
  \E i \in CallsOf("abort") : calls[i].params.UploadId = upload_id

\* some copy-part call of the run has failed
SomePartFailed == \E k \in DOMAIN copyParts : copyParts[k].state = "failed"

\* the part size the planner works with
PartSize == CopyPartSize(request.copy_part_size_bytes)

\* the planner has run on the request
HasPlanned == pc = "Planned" \/ upload_id # NoUpload

\* the number of bytes of a range
RangeLength(range) == range.end - range.start + 1

\* the copies settled in the reverse of their dispatch order
SettledInReverse ==
  /\ Len(settleOrder) = Len(copyParts)
  /\ \A i \in DOMAIN settleOrder : settleOrder[i] = Len(copyParts) + 1 - i

\* the send of the command op was rejected
SendFailed(op) ==
  op \in DOMAIN sendResults /\ sendResults[op].status = "rejected"

\* the send of the command op was fulfilled
SendSucceeded(op) ==
  op \in DOMAIN sendResults /\ sendResults[op].status = "resolved"

\* ------------------------------------------------------------------------
\* Properties
\* ------------------------------------------------------------------------
\* C1: a run whose initiate call succeeded and in which a copy-part call has
\* failed does not return before abort-multipart was sent for its upload id,
\* in whatever order the part copies settle.
C1_AbortBeforeReturn ==
  (pc = "Returned" /\ upload_id # NoUpload /\ SomePartFailed) => AbortIssued

\* C1 witness: a run returned after a part failed that was not the first to
\* settle, the first one having succeeded
C1_Witness ==
  /\ pc = "Returned"
  /\ Len(settleOrder) >= 2
  /\ copyParts[settleOrder[1]].state = "ok"
  /\ copyParts[settleOrder[2]].state = "failed"
  /\ AbortIssued

\* C2: when abort-multipart and list-parts both succeeded the run is never
\* resolved: an empty listing gives the 'multipart copy aborted' error, a
\* listing with parts gives the 'parts were not removed' error whose details
\* are that listing.
C2_AbortNeverSucceeds ==
  (pc = "Returned" /\ parts_list # NoListing) =>
     /\ outcome.status = "rejected"
     /\ outcome.reason.name = "Error"
     /\ IF Len(parts_list.Parts) = 0
        THEN outcome.reason.message = "multipart copy aborted"
        ELSE /\ outcome.reason.message =
                  "Abort procedure passed but copy parts were not removed"
             /\ outcome.reason.details = parts_list

\* C2 witness: a run returned after a listing that reported no part
C2_Witness ==
  /\ pc = "Returned"
  /\ parts_list # NoListing
  /\ Len(parts_list.Parts) = 0
  /\ outcome.status = "rejected"

\* C3: the manifest of every complete-multipart call is ordered strictly by
\* ascending part number, whatever the order in which the copies settled.
C3_ManifestAscending ==
  \A c \in CallsOf("complete") :
    LET Parts == calls[c].MultipartUpload.Parts
    IN \A i, j \in DOMAIN Parts :
         i < j => Parts[i].PartNumber < Parts[j].PartNumber

\* C3 witness: complete-multipart sent for two or more parts whose copies
\* settled in reverse order
C3_Witness ==
  /\ CallsOf("complete") # {}
  /\ Len(copyParts) >= 2
  /\ SettledInReverse

\* C4: after all part copies succeeded and the complete-multipart call
\* failed, the caller gets that call's own error and neither abort-multipart
\* nor list-parts is sent.
C4_CompleteFailureSurfaces ==
  (SendFailed("complete") /\ Len(copyParts) >= 1
     /\ \A k \in DOMAIN copyParts : copyParts[k].state = "ok") =>
     /\ CallsOf("abort") = {}
     /\ CallsOf("listParts") = {}
     /\ pc = "Returned" => outcome = Rejected(ServiceError("complete", 0))

\* C5: for object_size > 0 and part size >= the minimum, the planned ranges
\* are contiguous, start at 0, end at object_size - 1 and so cover exactly
\* [0, object_size - 1].
C5_RangesCover ==
  (HasPlanned /\ request.object_size > 0
              /\ PartSize >= COPY_PART_SIZE_MINIMUM_BYTES) =>
     /\ Len(partitionsRangeArray) >= 1
     /\ partitionsRangeArray[1].start = 0
     /\ partitionsRangeArray[Len(partitionsRangeArray)].end = request.object_size - 1
     /\ \A i \in DOMAIN partitionsRangeArray :
          partitionsRangeArray[i].start <= partitionsRangeArray[i].end
     /\ \A i \in 1..(Len(partitionsRangeArray) - 1) :
          partitionsRangeArray[i + 1].start = partitionsRangeArray[i].end + 1

\* C6: for 0 < object_size < the minimum part size the planner emits the one
\* range [0, object_size - 1], and one copy-part call is sent.
C6_SmallObjectOneRange ==
  (upload_id # NoUpload /\ request.object_size > 0
     /\ request.object_size < COPY_PART_SIZE_MINIMUM_BYTES) =>
     /\ partitionsRangeArray = <<Partition(0, request.object_size - 1)>>
     /\ Cardinality(CallsOf("copyPart")) = 1

\* C7: with a part size below the minimum or object_size <= 0 the run sends
\* no command to the storage service and is rejected with InvalidInput.
C7_InvalidInputNoCalls ==
  (PartSize < COPY_PART_SIZE_MINIMUM_BYTES \/ request.object_size <= 0) =>
     /\ calls = <<>>
     /\ pc = "Returned" =>
          (outcome.status = "rejected" /\ outcome.reason.name = "InvalidInput")

\* C8: for object_size > 0 and part size >= the minimum, no planned range is
\* shorter than the minimum part size unless it is the only range.
C8_NoShortRange ==
  (HasPlanned /\ request.object_size > 0
              /\ PartSize >= COPY_PART_SIZE_MINIMUM_BYTES
              /\ Len(partitionsRangeArray) # 1) =>
     \A i \in DOMAIN partitionsRangeArray :
        RangeLength(partitionsRangeArray[i]) >= COPY_PART_SIZE_MINIMUM_BYTES

\* C8 witness: a plan of several ranges whose last slice absorbed a non-zero
\* remainder below the minimum
C8_Witness ==
  /\ pc = "Planned"
  /\ request.object_size > 0
  /\ PartSize >= COPY_PART_SIZE_MINIMUM_BYTES
  /\ Len(partitionsRangeArray) >= 2
  /\ request.object_size % PartSize > 0
  /\ request.object_size % PartSize < COPY_PART_SIZE_MINIMUM_BYTES

\* the request of 120,000,000 bytes in parts of 50,000,000
IsRequest120By50 ==
  /\ pc = "Planned"
  /\ request.object_size = 120000000
  /\ request.copy_part_size_bytes = 50000000

\* C9 as stated: 120,000,000 bytes in parts of 50,000,000 are planned as the
\* 2 ranges [0, 49999999] and [50000000, 119999999].
C9_Original ==
  IsRequest120By50 =>
     partitionsRangeArray =
       <<Partition(0, 49999999), Partition(50000000, 119999999)>>

\* C9 amended: 120,000,000 bytes in parts of 50,000,000 are planned as the
\* 3 ranges [0, 49999999], [50000000, 99999999] and [100000000, 119999999].
C9_ThreeRanges ==
  IsRequest120By50 =>
     partitionsRangeArray =
       <<Partition(0, 49999999), Partition(50000000, 99999999),
         Partition(100000000, 119999999)>>

\* C9 witness: that request, planned
C9_Witness == IsRequest120By50 /\ Len(partitionsRangeArray) > 0

\* C10: with n = floor(object_size / part size) >= 1 and r the remainder:
\* for r < minimum there are n ranges, the first n - 1 of the part size and
\* the last [(n - 1) * size, object_size - 1]; for r >= minimum there are
\* n + 1, n of the part size and then [n * size, object_size - 1].
C10_RangeCount ==
  LET n == request.object_size \div PartSize
      r == request.object_size % PartSize
      whole == IF r < COPY_PART_SIZE_MINIMUM_BYTES THEN n - 1 ELSE n
  IN (pc = "Planned" /\ n >= 1) =>
       /\ Len(partitionsRangeArray) = whole + 1
       /\ \A i \in 1..whole :
            partitionsRangeArray[i] =
              Partition((i - 1) * PartSize, i * PartSize - 1)
       /\ partitionsRangeArray[whole + 1] =
            Partition(whole * PartSize, request.object_size - 1)

\* C10 witness: 100,000,004 bytes in parts of 50,000,000, planned as
\* [0, 49999999] and [50000000, 100000003]
C10_Witness ==
  /\ pc = "Planned"
  /\ request.object_size = 100000004
  /\ request.copy_part_size_bytes = 50000000
  /\ partitionsRangeArray =
       <<Partition(0, 49999999), Partition(50000000, 100000003)>>

\* the part numbers of the copy-part commands sent so far
PartNumbersSent == {calls[i].PartNumber : i \in CallsOf("copyPart")}

\* the two errors abortMultipartCopy builds itself
AbortProcedureErrors ==
  {AbortedError(AbortParams(u)) : u \in UploadIds \cup {NoUpload}}
  \cup {PartsNotRemovedError(l) : l \in ListPartsResponses}

\* C11 as stated: the 'multipart copy aborted' error returned after a failed
\* part copy carries that part copy's failure.
C11_OriginalFailureKept ==
  (/\ pc = "Returned"
   /\ SomePartFailed
   /\ outcome.status = "rejected"
   /\ outcome.reason = AbortedError(AbortParams(upload_id))) =>
     \/ outcome.reason.details = rejection
     \/ "cause" \in DOMAIN outcome.reason

\* C12: when the initiate call fails the run has returned that failure and
\* has sent nothing but the initiate command.
C12_InitiateFailureReturned ==
  SendFailed("initiate") =>
     /\ pc = "Returned"
     /\ outcome = Rejected(ServiceError("initiate", 0))
     /\ calls = <<[op |-> "initiate"]>>

\* C12 witness: a run returned after its initiate call failed
C12_Witness ==
  /\ SendFailed("initiate")
  /\ outcome.status = "rejected"
  /\ upload_id = NoUpload

\* C13: an error of the abort-multipart or of the list-parts call is what
\* the caller gets, unchanged, and is none of the two errors of the abort
\* procedure; after a failed abort-multipart no list-parts is sent.
C13_AbortErrorsPropagate ==
  /\ SendFailed("abort") =>
       /\ pc = "Returned"
       /\ outcome = Rejected(ServiceError("abort", 0))
       /\ outcome.reason \notin AbortProcedureErrors
       /\ CallsOf("listParts") = {}
  /\ SendFailed("listParts") =>
       /\ pc = "Returned"
       /\ outcome = Rejected(ServiceError("listParts", 0))
       /\ outcome.reason \notin AbortProcedureErrors

\* C13 witness: a run returned after its abort-multipart call failed
C13_Witness ==
  /\ SendFailed("abort")
  /\ pc = "Returned"
  /\ CallsOf("abort") # {}

\* C14: the run resolves only after a complete-multipart command was sent
\* and fulfilled, and then with exactly that command's response; every
\* other run that returned is rejected.
C14_SuccessOnlyByComplete ==
  /\ outcome.status = "resolved" =>
       /\ CallsOf("complete") # {}
       /\ SendSucceeded("complete")
       /\ outcome.value \in CompleteResponses
       /\ outcome = sendResults["complete"]
  /\ (pc = "Returned" /\ ~SendSucceeded("complete")) =>
       outcome.status = "rejected"

\* C14 witness: a run resolved with the response of its complete call
C14_Witness ==
  /\ pc = "Returned"
  /\ outcome.status = "resolved"
  /\ Len(copyParts) >= 1

\* C15: no command is sent twice: at most one initiate, complete, abort and
\* list-parts command, and at most one copy-part command per part number.
C15_NoRetry ==
  /\ \A op \in {"initiate", "complete", "abort", "listParts"} :
       Cardinality(CallsOf(op)) <= 1
  /\ \A i, j \in CallsOf("copyPart") :
       calls[i].PartNumber = calls[j].PartNumber => i = j

\* C15 witness: a run of two or more parts returned after a part copy and
\* then the list-parts call failed
C15_Witness ==
  /\ pc = "Returned"
  /\ SendFailed("listParts")
  /\ Len(copyParts) >= 2
  /\ SomePartFailed

\* C16 as stated: abort-multipart is sent only when no copy-part call of the
\* run is in flight any more.
C16_AbortAfterAllSettled ==
  CallsOf("abort") # {} =>
     \A k \in DOMAIN copyParts : copyParts[k].state # "inflight"

\* C17: complete-multipart is sent only when each of the planned part copies
\* has succeeded: none is in flight and none has failed.
C17_CompleteAfterAllSucceeded ==
  CallsOf("complete") # {} =>
     /\ Len(copyParts) = Len(partitionsRangeArray)
     /\ \A k \in DOMAIN copyParts : copyParts[k].state = "ok"

\* C17 witness: complete-multipart in flight for two or more parts, the
\* first of which settled first
C17_Witness ==
  /\ pc = "Finalizing"
  /\ Len(copyParts) >= 2
  /\ settleOrder[1] = 1

\* C18: once the initiate call has succeeded, the copy-part commands of all
\* planned ranges have been sent, before any of them settles and before any
\* complete or abort command.
C18_AllDispatchedFirst ==
  upload_id # NoUpload =>
     /\ PartNumbersSent = 1..Len(partitionsRangeArray)
     /\ \A i \in CallsOf("copyPart") :
          \A j \in CallsOf("complete") \cup CallsOf("abort") : i < j

\* C18 witness: the first copy to settle failed and abort was sent, with the
\* copy-part commands of two or more ranges all sent
C18_Witness ==
  /\ pc = "Aborting"
  /\ Len(partitionsRangeArray) >= 2
  /\ Len(settleOrder) = 1
  /\ copyParts[settleOrder[1]].state = "failed"
  /\ Cardinality(CallsOf("copyPart")) = Len(partitionsRangeArray)

\* C19: the copy-part command of the k-th range carries part number k, and
\* the manifest of the complete command has one entry per range, the k-th
\* with part number k and the tag the copy of the k-th range returned.
C19_TagsPairedWithParts ==
  /\ upload_id # NoUpload =>
       /\ PartNumbersSent = 1..Len(partitionsRangeArray)
       /\ \A i \in CallsOf("copyPart") :
            calls[i].CopySourceRange = partitionsRangeArray[calls[i].PartNumber]
  /\ \A c \in CallsOf("complete") :
       LET Parts == calls[c].MultipartUpload.Parts
       IN /\ Len(Parts) = Len(partitionsRangeArray)
          /\ \A k \in DOMAIN Parts :
               /\ Parts[k].PartNumber = k
               /\ Parts[k].ETag = copyParts[k].ETag

\* C19 witness: complete-multipart in flight for parts that returned
\* different tags and settled in reverse order
C19_Witness ==
  /\ pc = "Finalizing"
  /\ Len(copyParts) >= 2
  /\ copyParts[1].ETag # copyParts[2].ETag
  /\ SettledInReverse

\* C20: when every command sent is answered, every run returns: it reaches
\* the state Returned with an outcome, and the outcome never changes again.
C20_RunReturns ==
  /\ <>(pc = "Returned" /\ outcome.status # "pending")
  /\ [][outcome.status # "pending" => outcome' = outcome]_vars

\* C20 witness: a run returned by the abort procedure after all of its two
\* or more part copies settled
C20_Witness ==
  /\ pc = "Returned"
  /\ outcome.status = "rejected"
  /\ parts_list # NoListing
  /\ Len(copyParts) >= 2
  /\ Len(settleOrder) = Len(copyParts)

====
